---- MODULE Spec2Model ----
(***************************************************************************)
(* Model of the thermoelectric-cooler (TEC) library:                       *)
(*   src/src/tec_model/thermoelectric_cooler.py  (ThermoElectricCooler)    *)
(*   src/src/tec_model/cui_devices_cp35.py       (device catalogue)        *)
(*   src/src/script.py                           (module-level sweep)      *)
(*                                                                         *)
(* Numbers.  The code computes with Python floats (and, in script.py,      *)
(* with numpy float64 scalars).  A number is modelled as a record          *)
(*     [cls, sgn, n, d]                                                    *)
(* cls = "fin": the finite value sgn * n / d, an exact reduced fraction    *)
(*              (n = 0 keeps its sign: IEEE-754 signed zero);              *)
(* cls = "inf": signed infinity;  cls = "nan": not-a-number;               *)
(* cls = "ZeroDivisionError": the expression raised instead of yielding a  *)
(*              value (the exception propagates through every enclosing    *)
(*              operation).                                                *)
(* Finite arithmetic is exact: rounding of doubles (relative error 2^-53)  *)
(* is not modelled, range overflow is not modelled.                        *)
(*                                                                         *)
(* kind = "float"   : operands are builtin Python floats; x / 0 raises.    *)
(* kind = "float64" : the hot-side temperature is a numpy float64 scalar   *)
(*                    (script.py builds its inputs with np.linspace);      *)
(*                    every divisor in the library is derived from t_hot,  *)
(*                    so every division follows numpy: x / 0 is inf or nan.*)
(***************************************************************************)
EXTENDS Integers, Sequences, FiniteSets, TLC

(***************************************************************************)
(* Bounds of the model.                                                    *)
(***************************************************************************)
\* longest list of hot-side temperatures handed to plot_operating_regions
MaxHots == 2
\* longest list of currents handed to plot_operating_regions
MaxCurrents == 2
\* highest hot-side temperature (in kelvins, from 0) tried on the bench device
MaxKelvin == 4

(***************************************************************************)
(* Float arithmetic.                                                       *)
(***************************************************************************)
Abs(x) == IF x < 0 THEN -x ELSE x

RECURSIVE GCD(_, _)
GCD(a, b) == IF b = 0 THEN a ELSE GCD(b, a % b)

Fin(s, n, d) ==
    LET g == GCD(n, d)
    IN  [cls |-> "fin", sgn |-> s, n |-> n \div g, d |-> d \div g]

\* the float written n/d, n a signed integer and d > 0
Lit(n, d) == Fin(IF n < 0 THEN -1 ELSE 1, Abs(n), d)

Inf(s) == [cls |-> "inf", sgn |-> s, n |-> 0, d |-> 1]
NaN == [cls |-> "nan", sgn |-> 1, n |-> 0, d |-> 1]
ZeroDivisionError == [cls |-> "ZeroDivisionError", sgn |-> 1, n |-> 0, d |-> 1]

\* an exception took the place of the value
Raised(x) == x.cls \notin {"fin", "inf", "nan"}
IsFinite(x) == x.cls = "fin"
IsZero(x) == x.cls = "fin" /\ x.n = 0

FNeg(a) ==
    IF a.cls = "nan" \/ Raised(a) THEN a
    ELSE [a EXCEPT !.sgn = -a.sgn]

FMul(a, b) ==
    IF Raised(a) THEN a
    ELSE IF Raised(b) THEN b
    ELSE IF a.cls = "nan" \/ b.cls = "nan" THEN NaN
    ELSE IF a.cls = "inf" \/ b.cls = "inf"
         THEN IF IsZero(a) \/ IsZero(b) THEN NaN ELSE Inf(a.sgn * b.sgn)
    ELSE LET g1 == GCD(a.n, b.d)
             g2 == GCD(b.n, a.d)
         IN  Fin(a.sgn * b.sgn,
                 (a.n \div g1) * (b.n \div g2),
                 (a.d \div g2) * (b.d \div g1))

FAdd(a, b) ==
    IF Raised(a) THEN a
    ELSE IF Raised(b) THEN b
    ELSE IF a.cls = "nan" \/ b.cls = "nan" THEN NaN
    ELSE IF a.cls = "inf" /\ b.cls = "inf"
         THEN IF a.sgn = b.sgn THEN a ELSE NaN
    ELSE IF a.cls = "inf" THEN a
    ELSE IF b.cls = "inf" THEN b
    ELSE LET g == GCD(a.d, b.d)
             x == a.sgn * a.n * (b.d \div g) + b.sgn * b.n * (a.d \div g)
         IN  IF x = 0
             THEN Fin(IF a.sgn = b.sgn THEN a.sgn ELSE 1, 0, 1)
             ELSE Fin(IF x < 0 THEN -1 ELSE 1, Abs(x), (a.d \div g) * b.d)

FSub(a, b) == FAdd(a, FNeg(b))

\* a / b: a builtin float divisor of zero raises, a numpy one yields inf or nan
FDiv(kind, a, b) ==
    IF Raised(a) THEN a
    ELSE IF Raised(b) THEN b
    ELSE IF IsZero(b)
         THEN IF kind = "float" THEN ZeroDivisionError
              ELSE IF a.cls = "nan" \/ IsZero(a) THEN NaN
              ELSE Inf(a.sgn * b.sgn)
    ELSE IF a.cls = "nan" \/ b.cls = "nan" THEN NaN
    ELSE IF a.cls = "inf"
         THEN IF b.cls = "inf" THEN NaN ELSE Inf(a.sgn * b.sgn)
    ELSE IF b.cls = "inf" THEN Fin(a.sgn * b.sgn, 0, 1)
    ELSE FMul(a, [b EXCEPT !.n = b.d, !.d = b.n])

\* x ** 2
FSquare(a) == FMul(a, a)

\* a == b as Python compares floats (0.0 == -0.0, nan != nan)
FEq(a, b) ==
    /\ a.cls \in {"fin", "inf"}
    /\ b.cls \in {"fin", "inf"}
    /\ \/ a = b
       \/ IsZero(a) /\ IsZero(b)

\* the order of a/b and c/d (a, c >= 0 and b, d > 0): -1, 0 or 1, by comparing
\* the continued fractions, so that no product is formed
RECURSIVE CmpPos(_, _, _, _)
CmpPos(a, b, c, d) ==
    LET q1 == a \div b
        q2 == c \div d
        r1 == a % b
        r2 == c % d
    IN  IF q1 # q2 THEN (IF q1 < q2 THEN -1 ELSE 1)
        ELSE IF r1 = 0 /\ r2 = 0 THEN 0
        ELSE IF r1 = 0 THEN -1
        ELSE IF r2 = 0 THEN 1
        ELSE CmpPos(d, r2, b, r1)

\* the order of two finite values
Cmp(a, b) ==
    LET sa == IF a.n = 0 THEN 0 ELSE a.sgn
        sb == IF b.n = 0 THEN 0 ELSE b.sgn
    IN  IF sa # sb THEN (IF sa < sb THEN -1 ELSE 1)
        ELSE IF sa = 0 THEN 0
        ELSE sa * CmpPos(a.n, a.d, b.n, b.d)

\* a < b on finite values
FLt(a, b) == IsFinite(a) /\ IsFinite(b) /\ Cmp(a, b) = -1

\* b - tol <= a <= b + tol on finite values
FWithin(a, b, tol) ==
    /\ IsFinite(a)
    /\ IsFinite(b)
    /\ ~FLt(a, FSub(b, tol))
    /\ ~FLt(FAdd(b, tol), a)

(***************************************************************************)
(* Devices: ThermoElectricCooler records.  The class validates nothing     *)
(* beyond the field types, so any float ratings make a device.             *)
(***************************************************************************)
\* cui_devices_cp35.CP353047
CP353047 ==
    [mfn |-> "CP353047",
     v_max |-> Lit(118, 10),
     i_max |-> Lit(35, 10),
     q_max_27 |-> Lit(24, 1),
     q_max_50 |-> Lit(26, 1),
     delta_t_max_27 |-> Lit(70, 1),
     delta_t_max_50 |-> Lit(77, 1)]

\* a device with small ratings (all positive, as every catalogue entry is)
BenchDevice ==
    [mfn |-> "BENCH",
     v_max |-> Lit(2, 1),
     i_max |-> Lit(1, 1),
     q_max_27 |-> Lit(1, 1),
     q_max_50 |-> Lit(1, 1),
     delta_t_max_27 |-> Lit(2, 1),
     delta_t_max_50 |-> Lit(3, 1)]

(***************************************************************************)
(* ThermoElectricCooler: the derived quantities.                           *)
(***************************************************************************)
InvalidOperatingPoint == [cls |-> "InvalidOperatingPoint", sgn |-> 1, n |-> 0, d |-> 1]

\* variant: the hot-side temperature is validated before use
figure_of_merit_validating(self, kind, t_hot) ==
    IF ~FLt(self.delta_t_max_27, t_hot) THEN InvalidOperatingPoint
    ELSE FDiv(kind,
              FMul(Lit(2, 1), self.delta_t_max_27),
              FSquare(FSub(t_hot, self.delta_t_max_27)))

figure_of_merit(self, kind, t_hot) ==
    FDiv(kind,
         FMul(Lit(2, 1), self.delta_t_max_27),
         FSquare(FSub(t_hot, self.delta_t_max_27)))

\* variant: the hot-side temperature is taken in Celsius
seebeck_coefficient_celsius(self, kind, t_hot) ==
    FDiv(kind, self.v_max, FSub(t_hot, Lit(27315, 100)))

seebeck_coefficient(self, kind, t_hot) == FDiv(kind, self.v_max, t_hot)

thermal_conductance(self, kind, t_hot) ==
    FDiv(kind,
         FMul(FMul(FSub(t_hot, self.delta_t_max_27), self.v_max), self.i_max),
         FMul(FMul(Lit(2, 1), t_hot), self.delta_t_max_27))

\* variant: t_hot + delta_t_max_27 in the numerator
module_resistance_sum(self, kind, t_hot) ==
    FDiv(kind,
         FMul(FAdd(t_hot, self.delta_t_max_27), self.v_max),
         FMul(t_hot, self.i_max))

module_resistance(self, kind, t_hot) ==
    FDiv(kind,
         FMul(FSub(t_hot, self.delta_t_max_27), self.v_max),
         FMul(t_hot, self.i_max))

cooling_power(self, kind, current, t_hot, t_cold) ==
    LET r == module_resistance(self, kind, t_hot)
        s_m == seebeck_coefficient(self, kind, t_hot)
        k_m == thermal_conductance(self, kind, t_hot)
        i == current
        dt == FSub(t_hot, t_cold)
    IN  FSub(FSub(FMul(FMul(s_m, t_cold), i),
                  FMul(FMul(Lit(1, 2), FSquare(i)), r)),
             FMul(k_m, dt))

voltage(self, kind, current, t_hot, t_cold) ==
    LET r == module_resistance(self, kind, t_hot)
        i == current
        s_m == seebeck_coefficient(self, kind, t_hot)
        dt == FSub(t_hot, t_cold)
    IN  FAdd(FMul(s_m, dt), FMul(r, i))

\* what a call hands back: the values it returns, or the exception it raises
Returns(vals) ==
    IF \E j \in 1..Len(vals) : Raised(vals[j])
    THEN [exc |-> vals[CHOOSE j \in 1..Len(vals) : Raised(vals[j])].cls,
          val |-> <<>>]
    ELSE [exc |-> "none", val |-> vals]

\* variant: a negative cooling power is rejected
operating_params_rejecting(self, kind, current, t_hot, t_cold) ==
    LET v == voltage(self, kind, current, t_hot, t_cold)
        electrical_power == FMul(v, current)
        q == cooling_power(self, kind, current, t_hot, t_cold)
        fom == figure_of_merit(self, kind, t_hot)
        cop == FDiv(kind, q, electrical_power)
    IN  IF IsFinite(q) /\ q.n # 0 /\ q.sgn = -1
        THEN Returns(<<InvalidOperatingPoint>>)
        ELSE Returns(<<v, q, cop, fom>>)

\* the 4-tuple (voltage, cooling_power, coefficient_of_performance, figure_of_merit)
operating_params(self, kind, current, t_hot, t_cold) ==
    LET v == voltage(self, kind, current, t_hot, t_cold)
        electrical_power == FMul(v, current)
        q == cooling_power(self, kind, current, t_hot, t_cold)
        fom == figure_of_merit(self, kind, t_hot)
        cop == FDiv(kind, q, electrical_power)
    IN  Returns(<<v, q, cop, fom>>)

\* variant: the cooling power is divided by the voltage alone
coefficient_of_performance_by_voltage(self, kind, current, t_hot, t_cold) ==
    LET v == voltage(self, kind, current, t_hot, t_cold)
        q == cooling_power(self, kind, current, t_hot, t_cold)
    IN  FDiv(kind, q, v)

coefficient_of_performance(self, kind, current, t_hot, t_cold) ==
    LET v == voltage(self, kind, current, t_hot, t_cold)
        electrical_power == FMul(v, current)
        q == cooling_power(self, kind, current, t_hot, t_cold)
    IN  FDiv(kind, q, electrical_power)

(***************************************************************************)
(* State.                                                                  *)
(***************************************************************************)
VARIABLES
    self,              \* the device the methods are called on
    kind,              \* "float" or "float64": the numeric type of the inputs
    point,             \* the (current, t_cold) a caller of the methods works at
    prev, last,        \* the caller's previous and latest method call
    pc,                \* plot_operating_regions: where its control is
    t_cold, currents, t_hots, hot_side_sink_rj,   \* its arguments
    h, c,              \* index of the current t_hot, count of currents done
    voltages, cooling_powers, cops, t_ambients, figure_of_merits,
    plotted,           \* the groups handed to the axes (ax1..ax5 .plot)
    evaluated,         \* the (t_hot, current) pairs given to operating_params
    error,             \* the exception that left plot_operating_regions
    saved,             \* plt.savefig was reached
    script_pc,         \* script.py: where its control is
    script_h, script_c,
    script_evaluated,  \* the (t_hot, current) pairs it gave to operating_params
    script_points,     \* the points it appended to its lists
    script_error       \* the exception that ended it

callVars == <<point, prev, last>>
sweepVars == <<pc, t_cold, currents, t_hots, hot_side_sink_rj, h, c, voltages,
               cooling_powers, cops, t_ambients, figure_of_merits, plotted,
               evaluated, error, saved>>
scriptVars == <<script_pc, script_h, script_c, script_evaluated, script_points,
                script_error>>
vars == <<self, kind, callVars, sweepVars, scriptVars>>

Kinds == {"float", "float64"}

(***************************************************************************)
(* A caller of the single methods: it holds a device and a (current,       *)
(* t_cold) and evaluates the methods at hot-side temperatures of its       *)
(* choice.                                                                 *)
(***************************************************************************)
NoCall == [fn |-> "none", t_hot |-> Lit(0, 1), exc |-> "none", val |-> <<>>]

\* hot-side temperatures the caller tries on a device
HotSideTemperatures(dev) ==
    IF dev = CP353047
    THEN {Lit(70, 1), Lit(30015, 100), Lit(32815, 100)}
    ELSE {Lit(j, 1) : j \in 0..MaxKelvin}

\* the (current, t_cold) the caller may hold for a device
OperatingPoints(dev) ==
    IF dev = CP353047
    THEN {[current |-> Lit(35, 10), t_cold |-> Lit(27815, 100)]}
    ELSE {[current |-> Lit(i, 1), t_cold |-> Lit(1, 1)] : i \in {0, 2}}

Called(fn, t_hot, ret) ==
    /\ prev' = last
    /\ last' = [fn |-> fn, t_hot |-> t_hot, exc |-> ret.exc, val |-> ret.val]
    /\ UNCHANGED <<self, kind, point, sweepVars, scriptVars>>

CallFigureOfMerit ==
    \E t \in HotSideTemperatures(self) :
        Called("figure_of_merit", t, Returns(<<figure_of_merit(self, kind, t)>>))

CallSeebeckCoefficient ==
    \E t \in HotSideTemperatures(self) :
        Called("seebeck_coefficient", t,
               Returns(<<seebeck_coefficient(self, kind, t)>>))

CallThermalConductance ==
    \E t \in HotSideTemperatures(self) :
        Called("thermal_conductance", t,
               Returns(<<thermal_conductance(self, kind, t)>>))

CallModuleResistance ==
    \E t \in HotSideTemperatures(self) :
        Called("module_resistance", t,
               Returns(<<module_resistance(self, kind, t)>>))

CallCoolingPower ==
    \E t \in HotSideTemperatures(self) :
        Called("cooling_power", t,
               Returns(<<cooling_power(self, kind, point.current, t, point.t_cold)>>))

CallVoltage ==
    \E t \in HotSideTemperatures(self) :
        Called("voltage", t,
               Returns(<<voltage(self, kind, point.current, t, point.t_cold)>>))

CallOperatingParams ==
    \E t \in HotSideTemperatures(self) :
        Called("operating_params", t,
               operating_params(self, kind, point.current, t, point.t_cold))

CallCoefficientOfPerformance ==
    \E t \in HotSideTemperatures(self) :
        Called("coefficient_of_performance", t,
               Returns(<<coefficient_of_performance(self, kind, point.current, t,
                                                    point.t_cold)>>))

\* plot_operating_regions and script.py not started
SweepIdle ==
    /\ pc = "idle"
    /\ t_cold = Lit(0, 1)
    /\ currents = <<>>
    /\ t_hots = <<>>
    /\ hot_side_sink_rj = Lit(0, 1)
    /\ h = 0
    /\ c = 0
    /\ voltages = <<>>
    /\ cooling_powers = <<>>
    /\ cops = <<>>
    /\ t_ambients = <<>>
    /\ figure_of_merits = <<>>
    /\ plotted = <<>>
    /\ evaluated = <<>>
    /\ error = "none"
    /\ saved = FALSE

ScriptIdle ==
    /\ script_pc = "idle"
    /\ script_h = 0
    /\ script_c = 0
    /\ script_evaluated = <<>>
    /\ script_points = <<>>
    /\ script_error = "none"

InitCalls ==
    /\ self \in {BenchDevice, CP353047}
    /\ kind \in Kinds
    /\ point \in OperatingPoints(self)
    /\ prev = NoCall
    /\ last = NoCall
    /\ SweepIdle
    /\ ScriptIdle

NextCalls ==
    \/ CallFigureOfMerit
    \/ CallSeebeckCoefficient
    \/ CallThermalConductance
    \/ CallModuleResistance
    \/ CallCoolingPower
    \/ CallVoltage
    \/ CallOperatingParams
    \/ CallCoefficientOfPerformance

SpecCalls == InitCalls /\ [][NextCalls]_vars

(***************************************************************************)
(* ThermoElectricCooler.plot_operating_regions.                            *)
(***************************************************************************)
SeqsUpTo(S, n) == UNION {[1..k -> S] : k \in 0..n}

\* the arguments tried on a device
SweepArguments(dev) ==
    IF dev = CP353047
    THEN [t_cold : {Lit(27815, 100)},
          currents : SeqsUpTo({Lit(1, 1), Lit(5, 1)}, MaxCurrents),
          t_hots : SeqsUpTo({Lit(30015, 100)}, MaxHots),
          hot_side_sink_rj : {Lit(1, 2)}]
    ELSE [t_cold : {Lit(1, 1), Lit(4, 1)},
          currents : SeqsUpTo({Lit(0, 1), Lit(1, 1), Lit(2, 1)}, MaxCurrents),
          t_hots : SeqsUpTo({Lit(2, 1), Lit(3, 1)}, MaxHots),
          hot_side_sink_rj : {Lit(0, 1), Lit(1, 2)}]

\* "a, b, ... = ret" with n names on the left: the exception that comes out of it
Unpack(ret, n) ==
    IF ret.exc # "none" THEN ret.exc
    ELSE IF Len(ret.val) # n THEN "ValueError"
    ELSE "none"

\* variant: the exception is swallowed and the loop goes on
AfterCallSwallowed(exc) == "inner"

\* where control goes after the call of operating_params and the unpacking of
\* its result: nothing in the function catches an exception
AfterCall(exc) == IF exc = "none" THEN "inner" ELSE "raised"

\* variant: the loop stops one current early
CurrentsLeftOffByOne(done, seq) == done + 1 < Len(seq)

\* the inner for-loop has a current left to take
CurrentsLeft(done, seq) == done < Len(seq)

\* variant: the cooling power is left out of the rejected heat
AmbientTemperatureInputOnly(t_hot, input_power, q, rj) ==
    FSub(t_hot, FMul(input_power, rj))

\* t_ambient of one point
AmbientTemperature(t_hot, input_power, q, rj) ==
    FSub(t_hot, FMul(FAdd(input_power, q), rj))

Celsius(t) == FSub(t, Lit(27315, 100))

\* lines 158-188: the figure, the axes, the empty line lists.  A run of the
\* program is either a call of plot_operating_regions or a run of script.py.
SweepStart ==
    /\ pc = "idle"
    /\ script_pc = "idle"
    /\ \E a \in SweepArguments(self) :
        /\ t_cold' = a.t_cold
        /\ currents' = a.currents
        /\ t_hots' = a.t_hots
        /\ hot_side_sink_rj' = a.hot_side_sink_rj
    /\ pc' = "outer"
    /\ UNCHANGED <<self, kind, callVars, scriptVars, h, c, voltages,
                   cooling_powers, cops, t_ambients, figure_of_merits, plotted,
                   evaluated, error, saved>>

\* lines 190-195: the next t_hot and its empty lists
OuterNext ==
    /\ pc = "outer"
    /\ h < Len(t_hots)
    /\ h' = h + 1
    /\ c' = 0
    /\ voltages' = <<>>
    /\ cooling_powers' = <<>>
    /\ cops' = <<>>
    /\ t_ambients' = <<>>
    /\ figure_of_merits' = <<>>
    /\ pc' = "inner"
    /\ UNCHANGED <<self, kind, callVars, scriptVars, t_cold, currents, t_hots,
                   hot_side_sink_rj, plotted, evaluated, error, saved>>

\* lines 197-209: one current of the inner loop
InnerNext ==
    /\ pc = "inner"
    /\ CurrentsLeft(c, currents)
    /\ LET t_hot == t_hots[h]
           current == currents[c + 1]
           ret == operating_params(self, kind, current, t_hot, t_cold)
           exc == Unpack(ret, 4)
       IN  /\ evaluated' = Append(evaluated, <<t_hot, current>>)
           /\ pc' = AfterCall(exc)
           /\ IF exc # "none"
              THEN /\ error' = IF AfterCall(exc) = "raised" THEN exc ELSE error
                   /\ UNCHANGED <<c, voltages, cooling_powers, cops, t_ambients,
                                  figure_of_merits>>
              ELSE LET v == ret.val[1]
                       q == ret.val[2]
                       cop == ret.val[3]
                       fom == ret.val[4]
                       input_power == FMul(v, current)
                       t_ambient == AmbientTemperature(t_hot, input_power, q,
                                                       hot_side_sink_rj)
                       t_ambient_c == Celsius(t_ambient)
                   IN  /\ voltages' = Append(voltages, v)
                       /\ cooling_powers' = Append(cooling_powers, q)
                       /\ cops' = Append(cops, cop)
                       /\ t_ambients' = Append(t_ambients, t_ambient_c)
                       /\ figure_of_merits' = Append(figure_of_merits, fom)
                       /\ c' = c + 1
                       /\ error' = error
    /\ UNCHANGED <<self, kind, callVars, scriptVars, t_cold, currents, t_hots,
                   hot_side_sink_rj, h, plotted, saved>>

\* lines 211-225: the group's five lines go to the axes
PlotGroup ==
    /\ pc = "inner"
    /\ ~CurrentsLeft(c, currents)
    /\ plotted' = Append(plotted,
                         [t_hot_c |-> Celsius(t_hots[h]),
                          currents |-> currents,
                          voltages |-> voltages,
                          cooling_powers |-> cooling_powers,
                          cops |-> cops,
                          t_ambients |-> t_ambients,
                          figure_of_merits |-> figure_of_merits])
    /\ pc' = "outer"
    /\ UNCHANGED <<self, kind, callVars, scriptVars, t_cold, currents, t_hots,
                   hot_side_sink_rj, h, c, voltages, cooling_powers, cops,
                   t_ambients, figure_of_merits, evaluated, error, saved>>

\* lines 227-233: the legends, then plt.savefig
SaveFigure ==
    /\ pc = "outer"
    /\ h >= Len(t_hots)
    /\ saved' = TRUE
    /\ pc' = "done"
    /\ UNCHANGED <<self, kind, callVars, scriptVars, t_cold, currents, t_hots,
                   hot_side_sink_rj, h, c, voltages, cooling_powers, cops,
                   t_ambients, figure_of_merits, plotted, evaluated, error>>

(***************************************************************************)
(* script.py: the sweep at module level, on CP353047, with numpy inputs.   *)
(***************************************************************************)
\* np.linspace(1, 5.0, 20)
script_currents == [k \in 1..20 |-> Lit(19 + 4 * (k - 1), 19)]

\* np.linspace(27 + 273.15, 55 + 273.15, 6)
script_t_hots == [k \in 1..6 |-> Lit(30015 + 560 * (k - 1), 100)]

\* t_cold = 5 + 273.15
script_t_cold == Lit(27815, 100)

\* hot_side_sink_rj = 0.5
script_hot_side_sink_rj == Lit(1, 2)

\* lines 23-51: the constants, the figure, the inputs.  The script works on
\* CP353047 and its np.linspace inputs are numpy float64 scalars.
ScriptStart ==
    /\ script_pc = "idle"
    /\ pc = "idle"
    /\ self = CP353047
    /\ kind = "float64"
    /\ script_pc' = "loop"
    /\ script_h' = 1
    /\ script_c' = 0
    /\ UNCHANGED <<self, kind, callVars, sweepVars, script_evaluated,
                   script_points, script_error>>

\* lines 53-88, one step: a current of the inner loop (the call, the unpacking
\* into three names, the appends), the end of a group, or the legends and
\* plt.show() once the t_hots are used up
ScriptStep ==
    /\ script_pc = "loop"
    /\ IF script_h > Len(script_t_hots)
       THEN /\ script_pc' = "shown"
            /\ UNCHANGED <<script_h, script_c, script_evaluated, script_points,
                           script_error>>
       ELSE IF ~CurrentsLeft(script_c, script_currents)
       THEN /\ script_h' = script_h + 1
            /\ script_c' = 0
            /\ UNCHANGED <<script_pc, script_evaluated, script_points,
                           script_error>>
       ELSE LET t_hot == script_t_hots[script_h]
                current == script_currents[script_c + 1]
                ret == operating_params(CP353047, "float64", current, t_hot,
                                        script_t_cold)
                exc == Unpack(ret, 3)
            IN  /\ script_evaluated' = Append(script_evaluated, <<t_hot, current>>)
                /\ IF exc # "none"
                   THEN /\ script_pc' = "raised"
                        /\ script_error' = exc
                        /\ UNCHANGED <<script_c, script_points>>
                   ELSE LET v == ret.val[1]
                            q == ret.val[2]
                            cop == ret.val[3]
                            input_power == FMul(v, current)
                            t_ambient == AmbientTemperature(t_hot, input_power, q,
                                                            script_hot_side_sink_rj)
                        IN  /\ script_points' =
                                   Append(script_points,
                                          <<v, q, cop, Celsius(t_ambient)>>)
                            /\ script_c' = script_c + 1
                            /\ UNCHANGED <<script_pc, script_error>>
            /\ UNCHANGED script_h
    /\ UNCHANGED <<self, kind, callVars, sweepVars>>

InitSweep ==
    /\ self \in {BenchDevice, CP353047}
    /\ kind \in Kinds
    /\ point = [current |-> Lit(0, 1), t_cold |-> Lit(0, 1)]
    /\ prev = NoCall
    /\ last = NoCall
    /\ SweepIdle
    /\ ScriptIdle

NextSweep ==
    \/ SweepStart
    \/ OuterNext
    \/ InnerNext
    \/ PlotGroup
    \/ SaveFigure
    \/ ScriptStart
    \/ ScriptStep

SpecSweep == InitSweep /\ [][NextSweep]_vars

(***************************************************************************)
(* Properties of the single methods (specification SpecCalls).             *)
(***************************************************************************)
Zero == Lit(0, 1)
dT == self.delta_t_max_27

DerivedComputations ==
    {"figure_of_merit", "thermal_conductance", "module_resistance",
     "cooling_power", "voltage", "operating_params"}

\* voltage * current at the caller's point and hot-side temperature t
ElectricalPower(t) ==
    FMul(voltage(self, kind, point.current, t, point.t_cold), point.current)

\* the inputs C2 and C9 speak of: t_hot > delta_t_max_27 and voltage*current != 0
ValidPoint(t) == FLt(dT, t) /\ IsFinite(ElectricalPower(t)) /\ ~IsZero(ElectricalPower(t))

AllFinite(vals) == \A j \in 1..Len(vals) : IsFinite(vals[j])

\* C2: for t_hot > delta_t_max_27 and voltage*current != 0, the third value
\* operating_params returns and the value coefficient_of_performance returns for
\* the same inputs are equal, and both are cooling_power / (voltage * current).
C2_CopAgrees ==
    \A a \in {prev, last} : \A b \in {prev, last} :
        ( /\ a.fn = "operating_params"
          /\ b.fn = "coefficient_of_performance"
          /\ a.t_hot = b.t_hot
          /\ ValidPoint(a.t_hot) )
        => /\ a.exc = "none"
           /\ b.exc = "none"
           /\ FEq(a.val[3], b.val[1])
           /\ FEq(a.val[3],
                  FDiv(kind,
                       cooling_power(self, kind, point.current, a.t_hot, point.t_cold),
                       ElectricalPower(a.t_hot)))
           /\ FEq(a.val[2],
                  cooling_power(self, kind, point.current, a.t_hot, point.t_cold))

C2_Witness ==
    /\ prev.fn = "operating_params"
    /\ last.fn = "coefficient_of_performance"
    /\ prev.t_hot = last.t_hot
    /\ ValidPoint(last.t_hot)
    /\ ~IsZero(last.val[1])

\* C3 (as claimed): whenever voltage*current == 0, operating_params raises a
\* division-by-zero error and returns no tuple (so no inf or nan COP).
C3_ZeroPowerRaises ==
    ( /\ last.fn = "operating_params"
      /\ IsZero(ElectricalPower(last.t_hot)) )
    => /\ last.exc = "ZeroDivisionError"
       /\ last.val = <<>>

\* a divisor of the computation is zero at hot-side temperature t
Singular(fn, t) ==
    CASE fn = "figure_of_merit" -> FEq(t, dT)
      [] fn = "operating_params" ->
            IsZero(t) \/ FEq(t, dT) \/ IsZero(ElectricalPower(t))
      [] OTHER -> IsZero(t)

MonotoneCase(fns) ==
    /\ prev.fn = last.fn
    /\ last.fn \in fns
    /\ FLt(dT, prev.t_hot)
    /\ FLt(prev.t_hot, last.t_hot)

\* C6 (as claimed): for delta_t_max_27 < t1 < t2 each of figure_of_merit,
\* thermal_conductance and module_resistance is strictly larger at t1.
C6_AllDecreasing ==
    MonotoneCase({"figure_of_merit", "thermal_conductance", "module_resistance"})
    => FLt(last.val[1], prev.val[1])

\* C6 (amended): for delta_t_max_27 < t1 < t2, figure_of_merit is strictly
\* larger at t1 and equals 2*dT/(t-dT)^2 (unbounded near dT), while
\* thermal_conductance and module_resistance are strictly SMALLER at t1,
\* positive, and below (t-dT)*v_max*i_max/(2*dT^2) and (t-dT)*v_max/(dT*i_max)
\* (they tend to 0 near dT).
C6_Monotone ==
    /\ MonotoneCase({"figure_of_merit"})
       => /\ FLt(last.val[1], prev.val[1])
          /\ \A a \in {prev, last} :
                FEq(FMul(a.val[1], FSquare(FSub(a.t_hot, dT))), FMul(Lit(2, 1), dT))
    /\ MonotoneCase({"thermal_conductance"})
       => /\ FLt(prev.val[1], last.val[1])
          /\ \A a \in {prev, last} :
                /\ FLt(Zero, a.val[1])
                /\ FLt(a.val[1],
                       FDiv(kind,
                            FMul(FMul(FSub(a.t_hot, dT), self.v_max), self.i_max),
                            FMul(Lit(2, 1), FSquare(dT))))
    /\ MonotoneCase({"module_resistance"})
       => /\ FLt(prev.val[1], last.val[1])
          /\ \A a \in {prev, last} :
                /\ FLt(Zero, a.val[1])
                /\ FLt(a.val[1],
                       FDiv(kind,
                            FMul(FSub(a.t_hot, dT), self.v_max),
                            FMul(dT, self.i_max)))

C6_Witness ==
    /\ MonotoneCase({"thermal_conductance"})
    /\ FLt(prev.val[1], last.val[1])

AtDatasheetPoint(fn) ==
    /\ self = CP353047
    /\ last.fn = fn
    /\ last.t_hot = Lit(30015, 100)

\* C7 (as claimed): CP353047 at t_hot = 300.15: module_resistance is within 0.001
\* of 2.5669 and seebeck_coefficient within 0.001 of 0.03932.
C7_ClaimedValues ==
    /\ AtDatasheetPoint("module_resistance")
       => FWithin(last.val[1], Lit(25669, 10000), Lit(1, 1000))
    /\ AtDatasheetPoint("seebeck_coefficient")
       => FWithin(last.val[1], Lit(3932, 100000), Lit(1, 1000))

\* C7 (amended): CP353047 at t_hot = 300.15: module_resistance is
\* (300.15-70)*11.8/(300.15*3.5) = 543154/210105, within 0.001 of 2.5852 (not
\* 2.5669), and seebeck_coefficient is 11.8/300.15 = 236/6003, within 0.001 of
\* 0.03932.
C7_DatasheetValues ==
    /\ AtDatasheetPoint("module_resistance")
       => /\ last.exc = "none"
          /\ FEq(last.val[1], Lit(543154, 210105))
          /\ FWithin(last.val[1], Lit(25852, 10000), Lit(1, 1000))
          /\ ~FWithin(last.val[1], Lit(25669, 10000), Lit(1, 1000))
    /\ AtDatasheetPoint("seebeck_coefficient")
       => /\ last.exc = "none"
          /\ FEq(last.val[1], Lit(236, 6003))
          /\ FWithin(last.val[1], Lit(3932, 100000), Lit(1, 1000))

C7_Witness ==
    /\ AtDatasheetPoint("module_resistance")
    /\ prev.fn = "seebeck_coefficient"
    /\ prev.t_hot = last.t_hot

(***************************************************************************)
(* Properties of the sweeps (specification SpecSweep).                     *)
(***************************************************************************)
M == Len(t_hots)
N == Len(currents)

\* the j-th pair of the sweep, t_hots outermost
PairAt(j) == <<t_hots[((j - 1) \div N) + 1], currents[((j - 1) % N) + 1]>>

ParamsAt(t, i) == operating_params(self, kind, i, t, t_cold)

Ended == pc \in {"done", "raised"}

\* C1 (as claimed): for any t_hots of length M and currents of length N the sweep
\* evaluates operating_params exactly M*N times and hands over exactly M groups.
C1_EveryPairEvaluated ==
    Ended => Len(evaluated) = M * N /\ Len(plotted) = M

\* C1 (amended): the pairs are evaluated in the order t_hots[0] with
\* currents[0..N-1], then t_hots[1] with currents[0..N-1], ...; every group
\* handed over is one t_hot's, in input order, its sequences hold N entries and
\* entry j is that of currents[j]; and a sweep in which no call of
\* operating_params fails evaluates exactly M*N pairs and hands over exactly M
\* groups (a sweep that fails stops short of both).
C1_SweepShape ==
    /\ Len(evaluated) <= M * N
    /\ \A j \in 1..Len(evaluated) : evaluated[j] = PairAt(j)
    /\ Len(plotted) <= M
    /\ \A g \in 1..Len(plotted) :
          LET grp == plotted[g]
          IN  /\ grp.t_hot_c = Celsius(t_hots[g])
              /\ grp.currents = currents
              /\ Len(grp.voltages) = N
              /\ Len(grp.cooling_powers) = N
              /\ Len(grp.cops) = N
              /\ Len(grp.t_ambients) = N
              /\ Len(grp.figure_of_merits) = N
              /\ \A j \in 1..N :
                    LET ret == ParamsAt(t_hots[g], currents[j])
                    IN  /\ ret.exc = "none"
                        /\ grp.voltages[j] = ret.val[1]
                        /\ grp.cooling_powers[j] = ret.val[2]
                        /\ grp.cops[j] = ret.val[3]
                        /\ grp.figure_of_merits[j] = ret.val[4]
    /\ pc = "done" => /\ error = "none"
                      /\ Len(evaluated) = M * N
                      /\ Len(plotted) = M
    /\ pc = "raised" => Len(evaluated) < M * N \/ Len(plotted) < M

C1_Witness ==
    /\ pc = "done"
    /\ M = 2
    /\ N = 2
    /\ t_hots[1] # t_hots[2]
    /\ currents[1] # currents[2]
    /\ Len(evaluated) = 4
    /\ Len(plotted) = 2

\* C4: a call of operating_params that fails is the last one the sweep makes:
\* the sweep has stopped there with that exception, the failing point is not
\* appended, no further group is handed over and plt.savefig is not reached.
C4_FailureAborts ==
    /\ \A j \in 1..Len(evaluated) :
          LET exc == Unpack(ParamsAt(evaluated[j][1], evaluated[j][2]), 4)
          IN  exc # "none"
              => /\ j = Len(evaluated)
                 /\ pc = "raised"
                 /\ error = exc
                 /\ ~saved
                 /\ Len(plotted) = (j - 1) \div N
                 /\ Len(voltages) = (j - 1) % N
                 /\ Len(cops) = (j - 1) % N
    /\ pc = "raised"
       => /\ Len(evaluated) > 0
          /\ error # "none"
          /\ Unpack(ParamsAt(evaluated[Len(evaluated)][1],
                             evaluated[Len(evaluated)][2]), 4) = error
    /\ saved => pc = "done" /\ error = "none"

C4_Witness ==
    /\ pc = "raised"
    /\ error = "ZeroDivisionError"
    /\ Len(plotted) = 1
    /\ Len(evaluated) = N + 1
    /\ Len(evaluated) < M * N
    /\ ~saved

\* voltage*current + cooling_power of entry j of a group's sequences
Dissipated(vs, qs, j) == FAdd(FMul(vs[j], currents[j]), qs[j])

Kelvin(t_c) == FAdd(t_c, Lit(27315, 100))

AmbientLaw(t_hot, vs, qs, ambs) ==
    \A j \in 1..Len(ambs) :
        /\ FEq(Kelvin(ambs[j]),
               FSub(t_hot, FMul(Dissipated(vs, qs, j), hot_side_sink_rj)))
        /\ IsZero(hot_side_sink_rj) => FEq(Kelvin(ambs[j]), t_hot)
        /\ \A k \in 1..Len(ambs) :
              ( /\ FLt(Zero, hot_side_sink_rj)
                /\ FLt(Dissipated(vs, qs, k), Dissipated(vs, qs, j)) )
              => FLt(ambs[j], ambs[k])

DatasheetSweep ==
    /\ self = CP353047
    /\ pc = "done"
    /\ t_hots = <<Lit(30015, 100)>>
    /\ currents = <<Lit(1, 1), Lit(5, 1)>>
    /\ t_cold = Lit(27815, 100)
    /\ hot_side_sink_rj = Lit(1, 2)

\* C8: for every point, ambient temperature = t_hot - (voltage*current +
\* cooling_power) * sink resistance; within a group, with a positive sink
\* resistance the point that dissipates more has the strictly lower ambient
\* temperature, with sink resistance 0 the ambient temperature is t_hot; the
\* CP353047 sweep of currents [1.0, 5.0] at t_hot 300.15, t_cold 278.15, sink
\* resistance 0.5 yields 2 points, the one at 5.0 A dissipating more and having
\* the lower ambient temperature.
C8_AmbientTemperature ==
    /\ \A g \in 1..Len(plotted) :
          AmbientLaw(t_hots[g], plotted[g].voltages, plotted[g].cooling_powers,
                     plotted[g].t_ambients)
    /\ pc \in {"inner", "raised"}
       => AmbientLaw(t_hots[h], voltages, cooling_powers, t_ambients)
    /\ DatasheetSweep
       => /\ Len(plotted) = 1
          /\ Len(plotted[1].t_ambients) = 2
          /\ FLt(Dissipated(plotted[1].voltages, plotted[1].cooling_powers, 1),
                 Dissipated(plotted[1].voltages, plotted[1].cooling_powers, 2))
          /\ FLt(plotted[1].t_ambients[2], plotted[1].t_ambients[1])

C8_Witness ==
    /\ DatasheetSweep
    /\ Len(plotted) = 1
    /\ FLt(plotted[1].t_ambients[2], plotted[1].t_ambients[1])

Negative(x) == IsFinite(x) /\ x.n # 0 /\ x.sgn = -1

\* the point (t, i) is one C9 speaks of
ValidSweepPoint(t, i) ==
    LET p == FMul(voltage(self, kind, i, t, t_cold), i)
    IN  FLt(dT, t) /\ IsFinite(p) /\ ~IsZero(p)

C10_ScriptCompletes ==
    script_pc \notin {"idle", "loop"}
    => /\ script_pc = "shown"
       /\ script_error = "none"
       /\ Len(script_evaluated) = Len(script_t_hots) * Len(script_currents)
       /\ Len(script_points) = Len(script_evaluated)

====
